---- MODULE Spec2Model ----
(***************************************************************************)
(* Model of the license cache: Bootstrap (base/bootstrap.go) refreshes the *)
(* local cache from the remote index through a temporary directory, with   *)
(* one goroutine per license; ListLocal / ListRemote print an index sorted *)
(* by key.                                                                 *)
(*                                                                         *)
(* The file system is modelled as two trees (the temporary directory and   *)
(* the real license directory), each a root that exists or not and a       *)
(* function from file paths to file contents.  Every call of the code that *)
(* has an error branch may fail; the deferred os.RemoveAll of the          *)
(* temporary directory, whose error the code discards, removes the         *)
(* directory the process itself created.                                   *)
(***************************************************************************)
EXTENDS Integers, Sequences, FiniteSets, TLC

VARIABLES
    remote,      \* bytes the remote source serves for the index
    real,        \* the real license directory: [exists, files]
    staging,     \* the temporary directory of the running Bootstrap
    pc,          \* position of the Bootstrap call
    serialized,  \* Bootstrap's local: the fetched index bytes
    licenses,    \* Bootstrap's local: the decoded list
    tasks,       \* the goroutines: [pc, l, content, err] per license
    ch,          \* the buffered error channel (its capacity is Len(licenses))
    wg,          \* the WaitGroup counter
    result,      \* what the last Bootstrap call returned
    preReal,     \* history: the real directory when the current call started
    committed,   \* history: the real directory after the last successful call
    out,         \* what the last list command returned and printed
    calls        \* history: the calls the current Bootstrap has made, in order

vars == <<remote, real, staging, pc, serialized, licenses, tasks, ch, wg,
          result,  preReal, committed, out, calls>>

bootVars == <<staging, pc, serialized, licenses, tasks, ch, wg, result,
              preReal, committed, calls>>

(* ------------------------------ bounds --------------------------------- *)

MaxLicenses == 2

MaxListLen == 3

(* ----------------------------- constants ------------------------------- *)

Keys == {"mit", "apache-2.0", "gpl-3.0"}

Names == {"MIT License", "Other"}

DataDirectory == "data"

RawDirectory == "raw"

TemplatesDirectory == "templates"

IndexFile == "index.json"

\* the bytes of a key, for the byte-wise string comparison of Go
KeyBytes(k) ==
    CASE k = "mit"        -> <<109, 105, 116>>
      [] k = "apache-2.0" -> <<97, 112, 97, 99, 104, 101, 45, 50, 46, 48>>
      [] k = "gpl-3.0"    -> <<103, 112, 108, 45, 51, 46, 48>>

NameOf(k) ==
    CASE k = "mit"        -> "MIT License"
      [] k = "apache-2.0" -> "Other"
      [] k = "gpl-3.0"    -> "Other"

License(k, n) == [Key |-> k, Name |-> n]

(* ------------------------------ bytes ---------------------------------- *)

\* A blob of JSON: well-formed or not, and the records it encodes.
Blob(wf, recs) == [wf |-> wf, recs |-> recs]

NoBytes == Blob(FALSE, <<>>)

Malformed == Blob(FALSE, <<License("mit", "Other")>>)

\* jsonToList: the decoded list, or an error
jsonToList(b) ==
    IF b.wf THEN [err |-> FALSE, list |-> b.recs]
            ELSE [err |-> TRUE, list |-> <<>>]

\* jsonToLicense: the decoded full license, or an error
jsonToLicense(b) ==
    IF b.wf /\ Len(b.recs) = 1 THEN [err |-> FALSE, license |-> b.recs[1]]
                               ELSE [err |-> TRUE, license |-> License("", "")]

\* textTemplateString: the rendered template of a full license
textTemplateString(full) == <<"template", full.Key, full.Name>>

\* the bytes the remote source serves for the full info of license l
FullInfo(l) == Blob(TRUE, <<License(l.Key, NameOf(l.Key))>>)

(* ------------------------------ errors --------------------------------- *)

Err(kind, p, c) == [kind |-> kind, path |-> p, content |-> c]

NoPath == <<>>

Nil == Err("nil", NoPath, NoBytes)

newErrParsingArguments == Err("ParsingArguments", NoPath, NoBytes)

newErrBadFlagSyntax == Err("BadFlagSyntax", NoPath, NoBytes)

newErrCannotLocateHomeDir == Err("CannotLocateHomeDir", NoPath, NoBytes)

newErrCreateTempDirFailed == Err("CreateTempDirFailed", NoPath, NoBytes)

newErrCreateDirFailed(p) == Err("CreateDirFailed", p, NoBytes)

newErrFetchFailed == Err("FetchFailed", NoPath, NoBytes)

newErrDeserializeFailed(c) == Err("DeserializeFailed", NoPath, c)

newErrWriteFileFailed(p) == Err("WriteFileFailed", p, NoBytes)

newErrRemovePathFailed == Err("RemovePathFailed", <<"home", ".license">>, NoBytes)

newErrCopyTreeFailed == Err("CopyTreeFailed", <<"tmp", ".license">>, NoBytes)

NewErrReadFailed == Err("ReadFailed", NoPath, NoBytes)

(* ---------------------------- file trees ------------------------------- *)

EmptyFiles == [p \in {} |-> NoBytes]

NoDir == [exists |-> FALSE, files |-> EmptyFiles]

EmptyDir == [exists |-> TRUE, files |-> EmptyFiles]

\* paths relative to the root of a tree
indexFilePath == <<DataDirectory, IndexFile>>

\* mutant: the raw file name does not depend on the key
rawFilePathShared(k) == <<RawDirectory, "license">>

rawFilePath(k) == <<RawDirectory, k>>

templateFilePath(k) == <<TemplatesDirectory, k>>

\* ioutil.WriteFile: the tree with file p holding content c
WriteFile(d, p, c) ==
    [d EXCEPT !.files = [q \in (DOMAIN d.files) \cup {p} |->
                            IF q = p THEN c ELSE d.files[q]]]

\* the tree without file p
RemoveFile(d, p) ==
    [d EXCEPT !.files = [q \in (DOMAIN d.files) \ {p} |-> d.files[q]]]

KeysOf(list) == {list[i].Key : i \in DOMAIN list}

UniqueKeys(list) == Cardinality(KeysOf(list)) = Len(list)

\* the complete cache a successful Bootstrap of index bytes b leaves
CacheOf(b) ==
    [exists |-> TRUE,
     files  |-> [p \in {<<DataDirectory, IndexFile>>}
                        \cup {<<RawDirectory, k>> : k \in KeysOf(b.recs)}
                        \cup {<<TemplatesDirectory, k>> : k \in KeysOf(b.recs)} |->
                   IF p = <<DataDirectory, IndexFile>> THEN b
                   ELSE IF p[1] = RawDirectory
                        THEN FullInfo(License(p[2], NameOf(p[2])))
                        ELSE textTemplateString(License(p[2], NameOf(p[2])))]]

(* ------------------------------ sorting -------------------------------- *)

\* Go's comparison of strings: lexicographic on the bytes
RECURSIVE StrLess(_, _)
StrLess(a, b) ==
    IF a = <<>> THEN b # <<>>
    ELSE IF b = <<>> THEN FALSE
    ELSE IF a[1] < b[1] THEN TRUE
    ELSE IF a[1] > b[1] THEN FALSE
    ELSE StrLess(Tail(a), Tail(b))

\* ByLicenseKey.Less
Less(data, i, j) == StrLess(KeyBytes(data[i].Key), KeyBytes(data[j].Key))

\* ByLicenseKey.Swap
Swap(data, i, j) ==
    [data EXCEPT ![i] = data[j], ![j] = data[i]]

\* the inner loop of the insertion sort sort.Sort runs on a short slice
RECURSIVE SiftDown(_, _)
SiftDown(data, j) ==
    IF j > 1 /\ Less(data, j, j - 1)
    THEN SiftDown(Swap(data, j, j - 1), j - 1)
    ELSE data

RECURSIVE InsertFrom(_, _)
InsertFrom(data, i) ==
    IF i > Len(data) THEN data ELSE InsertFrom(SiftDown(data, i), i + 1)

\* mutant: printList without the call of sort.Sort
SortNothing(list) == list

\* sort.Sort(ByLicenseKey(licenses))
SortByLicenseKey(list) == InsertFrom(list, 2)

Header == <<"Available licenses:", "">>

Blank == <<"", "">>

\* one printed line: "%s%-14s(%s)\n" of the key and the name
Line(l) == <<l.Key, l.Name>>

\* printList: what it prints, the slice sorted first
printList(list) ==
    LET sorted == SortByLicenseKey(list)
    IN  <<Header>> \o [i \in 1..Len(sorted) |-> Line(sorted[i])] \o <<Blank>>

(* ------------------------------- lister -------------------------------- *)

NothingPrinted == <<>>

Out(op, e, printed) == [op |-> op, err |-> e, printed |-> printed]

\* readIndex: the bytes of the index file of the real directory
readIndex(io) ==
    IF io /\ real.exists /\ indexFilePath \in DOMAIN real.files
    THEN [err |-> FALSE, content |-> real.files[indexFilePath]]
    ELSE [err |-> TRUE, content |-> NoBytes]

\* fetchIndex: the bytes the remote source serves, or an error
fetchIndex(net) ==
    IF net THEN [err |-> FALSE, body |-> remote]
           ELSE [err |-> TRUE, body |-> NoBytes]

getLocalList(io) ==
    LET r == readIndex(io)
    IN  IF r.err THEN [err |-> TRUE, list |-> <<>>] ELSE jsonToList(r.content)

\* mutant: the error of jsonToList is dropped
getRemoteListUnchecked(net) ==
    LET r == fetchIndex(net)
    IN  [err |-> r.err, list |-> jsonToList(r.body).list]

getRemoteList(net) ==
    LET r == fetchIndex(net)
    IN  IF r.err THEN [err |-> TRUE, list |-> <<>>] ELSE jsonToList(r.body)

ListLocal ==
    /\ \E io \in BOOLEAN :
         LET r == getLocalList(io)
         IN  out' = IF r.err THEN Out("ListLocal", NewErrReadFailed, NothingPrinted)
                    ELSE Out("ListLocal", Nil, printList(r.list))
    /\ UNCHANGED <<remote, real, bootVars>>

ListRemote ==
    /\ \E net \in BOOLEAN :
         LET r == getRemoteList(net)
         IN  out' = IF r.err THEN Out("ListRemote", newErrFetchFailed, NothingPrinted)
                    ELSE Out("ListRemote", Nil, printList(r.list))
    /\ UNCHANGED <<remote, real, bootVars>>

(* ------------------------------ Bootstrap ------------------------------ *)

ArgOutcomes == {"ok", "parseError", "badFlag"}

\* setLogLevel: the error it returns for the outcome of parsing the flags
setLogLevel(a) ==
    CASE a = "parseError" -> newErrParsingArguments
      [] a = "badFlag"    -> newErrBadFlagSyntax
      [] OTHER            -> Nil

\* a return of Bootstrap before the defer statement is reached
ReturnEarly(e) ==
    /\ pc' = "returned"
    /\ result' = e
    /\ UNCHANGED staging

\* mutant: Bootstrap without the deferred os.RemoveAll
ReturnWithoutCleanup(e) == ReturnEarly(e)

\* a return of Bootstrap once the deferred os.RemoveAll(tempLicensePath) is
\* registered: the temporary directory is removed, then the caller gets e
Return(e) ==
    /\ pc' = "returned"
    /\ result' = e
    /\ staging' = NoDir

\* a goroutine working on its own copy l of a license; steps is history: the
\* steps of writeLicense it has taken, in order
Task(l) ==
    [pc |-> "fetch", l |-> l, content |-> NoBytes, err |-> Nil, steps |-> <<>>]

\* Bootstrap is called: setLogLevel, homedir.Dir
BootstrapCall ==
    /\ pc \in {"idle", "returned"}
    /\ calls' = <<>>
    /\ preReal' = real
    /\ serialized' = NoBytes
    /\ licenses' = <<>>
    /\ tasks' = <<>>
    /\ ch' = <<>>
    /\ wg' = 0
    /\ \E a \in ArgOutcomes, home \in BOOLEAN :
         IF setLogLevel(a).kind # "nil" THEN ReturnEarly(setLogLevel(a))
         ELSE IF ~home THEN ReturnEarly(newErrCannotLocateHomeDir)
         ELSE /\ pc' = "tempDir"
              /\ result' = Nil
              /\ UNCHANGED staging
    /\ UNCHANGED <<remote, real, committed, out>>

\* ioutil.TempDir
TempDir ==
    /\ pc = "tempDir"
    /\ calls' = Append(calls, "TempDir")
    /\ \E ok \in BOOLEAN :
         IF ok THEN /\ staging' = EmptyDir
                    /\ pc' = "mkdirAll"
                    /\ UNCHANGED result
         ELSE ReturnEarly(newErrCreateTempDirFailed)
    /\ UNCHANGED <<remote, real, serialized, licenses, tasks, ch, wg, 
                   preReal, committed, out>>

\* mutant: the defer statement placed after the loop over pathsToMake
MkdirAllBeforeDefer ==
    /\ pc = "mkdirAll"
    /\ calls' = Append(calls, "MkdirAll")
    /\ \E failed \in {"none", RawDirectory, TemplatesDirectory} :
         IF failed = "none" THEN /\ pc' = "fetchIndex"
                                 /\ UNCHANGED <<staging, result>>
         ELSE ReturnEarly(newErrCreateDirFailed(<<DataDirectory, failed>>))
    /\ UNCHANGED <<remote, real, serialized, licenses, tasks, ch, wg,
                   preReal, committed, out>>

\* the loop over pathsToMake: os.MkdirAll of rawPath and templatesPath
MkdirAll ==
    /\ pc = "mkdirAll"
    /\ calls' = Append(calls, "MkdirAll")
    /\ \E failed \in {"none", RawDirectory, TemplatesDirectory} :
         IF failed = "none" THEN /\ pc' = "fetchIndex"
                                 /\ UNCHANGED <<staging, result>>
         ELSE Return(newErrCreateDirFailed(<<DataDirectory, failed>>))
    /\ UNCHANGED <<remote, real, serialized, licenses, tasks, ch, wg, 
                   preReal, committed, out>>

\* mutant: a failed fetchIndex returns without the deferred cleanup
FetchIndexBeforeDefer ==
    /\ pc = "fetchIndex"
    /\ calls' = Append(calls, "fetchIndex")
    /\ \E net \in BOOLEAN :
         LET r == fetchIndex(net)
         IN  IF r.err THEN /\ ReturnEarly(newErrFetchFailed)
                           /\ UNCHANGED serialized
             ELSE /\ serialized' = r.body
                  /\ pc' = "writeIndex"
                  /\ UNCHANGED <<staging, result>>
    /\ UNCHANGED <<remote, real, licenses, tasks, ch, wg,  preReal,
                   committed, out>>

\* serialized, err := fetchIndex()
FetchIndex ==
    /\ pc = "fetchIndex"
    /\ calls' = Append(calls, "fetchIndex")
    /\ \E net \in BOOLEAN :
         LET r == fetchIndex(net)
         IN  IF r.err THEN /\ Return(newErrFetchFailed)
                           /\ UNCHANGED serialized
             ELSE /\ serialized' = r.body
                  /\ pc' = "writeIndex"
                  /\ UNCHANGED <<staging, result>>
    /\ UNCHANGED <<remote, real, licenses, tasks, ch, wg,  preReal,
                   committed, out>>

\* ioutil.WriteFile(indexFilePath, serialized, perm)
WriteIndex ==
    /\ pc = "writeIndex"
    /\ calls' = Append(calls, "WriteFile")
    /\ \E ok \in BOOLEAN :
         IF ok THEN /\ staging' = WriteFile(staging, indexFilePath, serialized)
                    /\ pc' = "jsonToList"
                    /\ UNCHANGED result
         ELSE Return(newErrCreateDirFailed(indexFilePath))
    /\ UNCHANGED <<remote, real, serialized, licenses, tasks, ch, wg, 
                   preReal, committed, out>>

\* licenses, err := jsonToList(serialized)
DecodeIndex ==
    /\ pc = "jsonToList"
    /\ calls' = Append(calls, "jsonToList")
    /\ LET r == jsonToList(serialized)
       IN  IF r.err THEN /\ Return(newErrDeserializeFailed(serialized))
                         /\ UNCHANGED licenses
           ELSE /\ licenses' = r.list
                /\ pc' = "fanOut"
                /\ UNCHANGED <<staging, result>>
    /\ UNCHANGED <<remote, real, serialized, tasks, ch, wg,  preReal,
                   committed, out>>

\* mutant: every goroutine is handed the loop variable itself, which holds
\* the last license by the time the goroutines read it
FanOutSharedVariable ==
    /\ pc = "fanOut"
    /\ wg' = Len(licenses)
    /\ ch' = <<>>
    /\ tasks' = [i \in 1..Len(licenses) |-> Task(licenses[Len(licenses)])]
    /\ pc' = "wait"
    /\ UNCHANGED <<remote, real, staging, serialized, licenses, result,
                   preReal, committed, out, calls>>

\* wg.Add(len(licenses)), make(chan error, len(licenses)), and the loop that
\* starts one goroutine per license on its own copy of the license
FanOut ==
    /\ pc = "fanOut"
    /\ wg' = Len(licenses)
    /\ ch' = <<>>
    /\ tasks' = [i \in 1..Len(licenses) |-> Task(licenses[i])]
    /\ pc' = "wait"
    /\ UNCHANGED <<remote, real, staging, serialized, licenses, result, 
                   preReal, committed, out, calls>>

(* ------------------------ writeLicense goroutines ---------------------- *)

TaskIds == DOMAIN tasks

\* mutant: a channel one slot too small
ChanCapShort == Len(licenses) - 1

\* the capacity of ch: make(chan error, len(licenses))
ChanCap == Len(licenses)

\* writeLicense returns e from its step named step
Finish(i, step, e) ==
    tasks' = [tasks EXCEPT ![i].pc = "send", ![i].err = e,
                           ![i].steps = Append(@, step)]

\* mutant: a fetchFullInfo that fails is tried a second time
TaskFetchRetries(i) ==
    /\ tasks[i].pc = "fetch"
    /\ \E o \in {"error", "ok", "garbage"} :
         CASE o = "error"   ->
                IF tasks[i].steps = <<>>
                THEN tasks' = [tasks EXCEPT ![i].steps = Append(@, "fetch")]
                ELSE Finish(i, "fetch", newErrFetchFailed)
           [] o = "ok"      -> tasks' = [tasks EXCEPT ![i].pc = "decode",
                                           ![i].steps = Append(@, "fetch"),
                                           ![i].content = FullInfo(tasks[i].l)]
           [] o = "garbage" -> tasks' = [tasks EXCEPT ![i].pc = "decode",
                                           ![i].steps = Append(@, "fetch"),
                                           ![i].content = Blob(FALSE, <<tasks[i].l>>)]
    /\ UNCHANGED <<remote, real, staging, pc, serialized, licenses, ch, wg,
                   result,  preReal, committed, out, calls>>

\* content, err := l.fetchFullInfo()
TaskFetch(i) ==
    /\ tasks[i].pc = "fetch"
    /\ \E o \in {"error", "ok", "garbage"} :
         CASE o = "error"   -> Finish(i, "fetch", newErrFetchFailed)
           [] o = "ok"      -> tasks' = [tasks EXCEPT ![i].pc = "decode",
                                           ![i].steps = Append(@, "fetch"),
                                           ![i].content = FullInfo(tasks[i].l)]
           [] o = "garbage" -> tasks' = [tasks EXCEPT ![i].pc = "decode",
                                           ![i].steps = Append(@, "fetch"),
                                           ![i].content = Blob(FALSE, <<tasks[i].l>>)]
    /\ UNCHANGED <<remote, real, staging, pc, serialized, licenses, ch, wg,
                   result,  preReal, committed, out, calls>>

\* mutant: the error of jsonToLicense is not looked at
TaskDecodeUnchecked(i) ==
    /\ tasks[i].pc = "decode"
    /\ tasks' = [tasks EXCEPT ![i].pc = "writeRaw",
                              ![i].steps = Append(@, "decode")]
    /\ UNCHANGED <<remote, real, staging, pc, serialized, licenses, ch, wg,
                   result,  preReal, committed, out, calls>>

\* fullLicense, err := jsonToLicense(content)
TaskDecode(i) ==
    /\ tasks[i].pc = "decode"
    /\ IF jsonToLicense(tasks[i].content).err
       THEN Finish(i, "decode", newErrDeserializeFailed(tasks[i].content))
       ELSE tasks' = [tasks EXCEPT ![i].pc = "writeRaw",
                                   ![i].steps = Append(@, "decode")]
    /\ UNCHANGED <<remote, real, staging, pc, serialized, licenses, ch, wg,
                   result,  preReal, committed, out, calls>>

\* ioutil.WriteFile(rawFilePath, content, perm)
TaskWriteRaw(i) ==
    /\ tasks[i].pc = "writeRaw"
    /\ \E ok \in BOOLEAN :
         IF ok /\ staging.exists
         THEN /\ staging' = WriteFile(staging, rawFilePath(tasks[i].l.Key),
                                      tasks[i].content)
              /\ tasks' = [tasks EXCEPT ![i].pc = "writeTemplate",
                                          ![i].steps = Append(@, "writeRaw")]
         ELSE /\ Finish(i, "writeRaw",
                        newErrWriteFileFailed(rawFilePath(tasks[i].l.Key)))
              /\ UNCHANGED staging
    /\ UNCHANGED <<remote, real, pc, serialized, licenses, ch, wg, result,
                    preReal, committed, out, calls>>

\* ioutil.WriteFile(templateFilePath, []byte(templateData), perm); return nil
TaskWriteTemplate(i) ==
    /\ tasks[i].pc = "writeTemplate"
    /\ \E ok \in BOOLEAN :
         IF ok /\ staging.exists
         THEN /\ staging' = WriteFile(staging, templateFilePath(tasks[i].l.Key),
                     textTemplateString(jsonToLicense(tasks[i].content).license))
              /\ Finish(i, "writeTemplate", Nil)
         ELSE /\ Finish(i, "writeTemplate",
                        newErrWriteFileFailed(templateFilePath(tasks[i].l.Key)))
              /\ UNCHANGED staging
    /\ UNCHANGED <<remote, real, pc, serialized, licenses, ch, wg, result,
                    preReal, committed, out, calls>>

\* ch <- writeLicense(l, rawPath, templatesPath): blocks while ch is full
TaskSend(i) ==
    /\ tasks[i].pc = "send"
    /\ Len(ch) < ChanCap
    /\ ch' = Append(ch, [task |-> i, err |-> tasks[i].err])
    /\ tasks' = [tasks EXCEPT ![i].pc = "done"]
    /\ UNCHANGED <<remote, real, staging, pc, serialized, licenses, wg,
                   result,  preReal, committed, out, calls>>

\* mutant: wg.Done is called only by a task that succeeded
TaskDoneOnSuccess(i) ==
    /\ tasks[i].pc = "done"
    /\ wg' = IF tasks[i].err.kind = "nil" THEN wg - 1 ELSE wg
    /\ tasks' = [tasks EXCEPT ![i].pc = "exited"]
    /\ UNCHANGED <<remote, real, staging, pc, serialized, licenses, ch,
                   result,  preReal, committed, out, calls>>

\* defer wg.Done()
TaskDone(i) ==
    /\ tasks[i].pc = "done"
    /\ wg' = wg - 1
    /\ tasks' = [tasks EXCEPT ![i].pc = "exited"]
    /\ UNCHANGED <<remote, real, staging, pc, serialized, licenses, ch,
                   result,  preReal, committed, out, calls>>

(* ------------------------- join, check, commit ------------------------- *)

\* mutant: the orchestrator does not wait for the goroutines
AllDoneAlways == TRUE

\* wg.Wait() returns once the counter of the WaitGroup is zero
AllDone == wg = 0

\* wg.Wait(); close(ch)
Wait ==
    /\ pc = "wait"
    /\ AllDone
    /\ pc' = "range"
    /\ UNCHANGED <<remote, real, staging, serialized, licenses, tasks, ch, wg,
                   result,  preReal, committed, out, calls>>

\* mutant: the errors of the tasks are not looked at
IsFailureNever(e) == FALSE

\* err != nil
IsFailure(e) == e.kind # "nil"

\* mutant: the loop reports a failure of its own making
DrainAnyError ==
    /\ pc = "range"
    /\ IF ch = <<>>
       THEN /\ pc' = "removeAll"
            /\ calls' = Append(calls, "RemoveAll")
            /\ UNCHANGED <<ch, staging, result>>
       ELSE /\ ch' = Tail(ch)
            /\ UNCHANGED calls
            /\ IF IsFailure(Head(ch).err)
               THEN Return(newErrFetchFailed)
               ELSE UNCHANGED <<pc, staging, result>>
    /\ UNCHANGED <<remote, real, serialized, licenses, tasks, wg,
                   preReal, committed, out>>

\* mutant: a failure is reported only when it is the last outcome in ch
DrainToTheEnd ==
    /\ pc = "range"
    /\ IF ch = <<>>
       THEN /\ pc' = "removeAll"
            /\ calls' = Append(calls, "RemoveAll")
            /\ UNCHANGED <<ch, staging, result>>
       ELSE /\ ch' = Tail(ch)
            /\ UNCHANGED calls
            /\ IF IsFailure(Head(ch).err) /\ Tail(ch) = <<>>
               THEN Return(Head(ch).err)
               ELSE UNCHANGED <<pc, staging, result>>
    /\ UNCHANGED <<remote, real, serialized, licenses, tasks, wg,
                   preReal, committed, out>>

\* one iteration of: for err := range ch { if err != nil { return err } }
Drain ==
    /\ pc = "range"
    /\ IF ch = <<>>
       THEN /\ pc' = "removeAll"
            /\ calls' = Append(calls, "RemoveAll")
            /\ UNCHANGED <<ch, staging, result>>
       ELSE /\ ch' = Tail(ch)
            /\ UNCHANGED calls
            /\ IF IsFailure(Head(ch).err)
               THEN Return(Head(ch).err)
               ELSE UNCHANGED <<pc, staging, result>>
    /\ UNCHANGED <<remote, real, serialized, licenses, tasks, wg, 
                   preReal, committed, out>>

\* mutant: a real directory that is not there counts as a failed removal
RemoveAllStrict ==
    /\ pc = "removeAll"
    /\ IF ~real.exists
       THEN /\ Return(newErrRemovePathFailed)
            /\ UNCHANGED real
       ELSE IF DOMAIN real.files = {}
       THEN /\ real' = NoDir
            /\ pc' = "copyTree"
            /\ UNCHANGED <<staging, result>>
       ELSE /\ \E p \in DOMAIN real.files : real' = RemoveFile(real, p)
            /\ UNCHANGED <<pc, staging, result>>
    /\ UNCHANGED <<remote, serialized, licenses, tasks, ch, wg,
                   preReal, committed, out, calls>>

\* os.RemoveAll(realLicensePath) removes the entries one by one, the root last
RemoveAllStep ==
    /\ pc = "removeAll"
    /\ IF ~real.exists
       THEN /\ pc' = "copyTree"
            /\ UNCHANGED real
       ELSE IF DOMAIN real.files = {}
       THEN /\ real' = NoDir
            /\ pc' = "copyTree"
       ELSE /\ \E p \in DOMAIN real.files : real' = RemoveFile(real, p)
            /\ UNCHANGED pc
    /\ UNCHANGED <<remote, staging, serialized, licenses, tasks, ch, wg,
                   result,  preReal, committed, out, calls>>

\* os.RemoveAll fails: a permission error is returned as RemovePathFailed,
\* any other error is dropped by the && os.IsPermission(err) test
RemoveAllFails ==
    /\ pc = "removeAll"
    /\ real.exists
    /\ \E permission \in BOOLEAN :
         IF permission THEN Return(newErrRemovePathFailed)
         ELSE /\ pc' = "copyTree"
              /\ UNCHANGED <<staging, result>>
    /\ UNCHANGED <<remote, real, serialized, licenses, tasks, ch, wg, 
                   preReal, committed, out, calls>>

DirRank(d) ==
    CASE d = DataDirectory      -> 1
      [] d = RawDirectory       -> 2
      [] d = TemplatesDirectory -> 3

\* the order in which shutil.CopyTree walks the tree: ioutil.ReadDir sorts
PathLess(p, q) ==
    \/ DirRank(p[1]) < DirRank(q[1])
    \/ /\ p[1] = q[1]
       /\ p[1] # DataDirectory
       /\ StrLess(KeyBytes(p[2]), KeyBytes(q[2]))

\* the files of the temporary directory CopyTree has not copied yet
ToCopy == DOMAIN staging.files \ DOMAIN real.files

NextToCopy == CHOOSE p \in ToCopy : \A q \in ToCopy \ {p} : PathLess(p, q)

\* mutant: CopyTree copies into a destination that exists
CopyTreeMerges(dst) == FALSE

\* shutil.CopyTree refuses a destination that exists (AlreadyExistsError)
CopyTreeRefuses(dst) == dst.exists

\* shutil.CopyTree(tempLicensePath, realLicensePath, nil): the destination
\* check and the creation of the destination root
CopyTreeStart ==
    /\ pc = "copyTree"
    /\ calls' = Append(calls, "CopyTree")
    /\ \E ok \in BOOLEAN :
         IF CopyTreeRefuses(real) \/ ~ok
         THEN /\ Return(newErrCopyTreeFailed)
              /\ UNCHANGED real
         ELSE /\ real' = [real EXCEPT !.exists = TRUE]
              /\ pc' = "copying"
              /\ UNCHANGED <<staging, result>>
    /\ UNCHANGED <<remote, serialized, licenses, tasks, ch, wg,  preReal,
                   committed, out>>

\* shutil.CopyTree copies the next entry, or stops at the first error
CopyTreeStep ==
    /\ pc = "copying"
    /\ ToCopy # {}
    /\ \E ok \in BOOLEAN :
         IF ok THEN /\ real' = WriteFile(real, NextToCopy,
                                         staging.files[NextToCopy])
                    /\ UNCHANGED <<pc, staging, result>>
         ELSE /\ Return(newErrCopyTreeFailed)
              /\ UNCHANGED real
    /\ UNCHANGED <<remote, serialized, licenses, tasks, ch, wg,  preReal,
                   committed, out, calls>>

\* CopyTree returned nil: "bootstrap complete!", return nil
Complete ==
    /\ pc = "copying"
    /\ ToCopy = {}
    /\ Return(Nil)
    /\ committed' = <<real>>
    /\ UNCHANGED <<remote, real, serialized, licenses, tasks, ch, wg, 
                   preReal, out, calls>>

(* --------------------------- specifications --------------------------- *)

SeqsUpTo(S, n) == UNION {[1..m -> S] : m \in 0..n}

\* the remote catalog in the order the source serves it
Wire == <<"mit", "apache-2.0", "gpl-3.0">>

\* the first n licenses of the catalog
Served(n) == [i \in 1..n |-> License(Wire[i], NameOf(Wire[i]))]

\* an index that names one license twice
Repeated == <<License(Wire[1], NameOf(Wire[1])), License(Wire[1], NameOf(Wire[1]))>>

Min(a, b) == IF a < b THEN a ELSE b

\* what the remote source may serve as the index: the first licenses of the
\* catalog, an index with a repeated key, or bytes that do not decode
RemoteBlobs ==
    {Blob(TRUE, Served(n)) : n \in 0..Min(MaxLicenses, Len(Wire))}
        \cup {Blob(TRUE, Repeated), Malformed}

\* the index of the cache an earlier Bootstrap left
Previous == Blob(TRUE, <<License("gpl-3.0", NameOf("gpl-3.0"))>>)

\* the real directory before the first call: absent, or left by an earlier
\* successful Bootstrap
InitialCaches == {NoDir, CacheOf(Previous)}

NoOut == Out("none", Nil, NothingPrinted)

InitLocals ==
    /\ staging = NoDir
    /\ pc = "idle"
    /\ serialized = NoBytes
    /\ licenses = <<>>
    /\ tasks = <<>>
    /\ ch = <<>>
    /\ wg = 0
    /\ result = Nil
    /\ committed = <<>>
    /\ out = NoOut
    /\ calls = <<>>

Init ==
    /\ remote \in RemoteBlobs
    /\ real \in InitialCaches
    /\ preReal = real
    /\ InitLocals

Next ==
    \/ BootstrapCall
    \/ TempDir
    \/ MkdirAll
    \/ FetchIndex
    \/ WriteIndex
    \/ DecodeIndex
    \/ FanOut
    \/ \E i \in TaskIds : TaskFetch(i)
    \/ \E i \in TaskIds : TaskDecode(i)
    \/ \E i \in TaskIds : TaskWriteRaw(i)
    \/ \E i \in TaskIds : TaskWriteTemplate(i)
    \/ \E i \in TaskIds : TaskSend(i)
    \/ \E i \in TaskIds : TaskDone(i)
    \/ Wait
    \/ Drain
    \/ RemoveAllStep
    \/ RemoveAllFails
    \/ CopyTreeStart
    \/ CopyTreeStep
    \/ Complete

Spec == Init /\ [][Next]_vars

\* a step of the goroutine of license i
TaskStep(i) ==
    /\ i \in TaskIds
    /\ \/ TaskFetch(i)
       \/ TaskDecode(i)
       \/ TaskWriteRaw(i)
       \/ TaskWriteTemplate(i)
       \/ TaskSend(i)
       \/ TaskDone(i)

\* a step of a Bootstrap that has been called
OrchestratorStep ==
    \/ TempDir
    \/ MkdirAll
    \/ FetchIndex
    \/ WriteIndex
    \/ DecodeIndex
    \/ FanOut
    \/ Wait
    \/ Drain
    \/ RemoveAllStep
    \/ RemoveAllFails
    \/ CopyTreeStart
    \/ CopyTreeStep
    \/ Complete

\* the first call of Bootstrap
FirstCall ==
    /\ pc = "idle"
    /\ BootstrapCall

\* one call of Bootstrap, from the call to the return
NextOnce ==
    \/ FirstCall
    \/ OrchestratorStep
    \/ \E i \in TaskIds : TaskStep(i)

\* one call of Bootstrap under the Go scheduler, which runs every goroutine
\* that can run, with every call the goroutines make returning: the
\* orchestrator and each task keep taking steps while they have one (an
\* index has at most MaxLicenses + 1 entries, so there are as many tasks)
SpecFair ==
    /\ Init
    /\ [][NextOnce]_vars
    /\ WF_vars(OrchestratorStep)
    /\ \A i \in 1..(MaxLicenses + 1) : WF_vars(TaskStep(i))

\* the list commands on every index of at most MaxListLen summaries
ListInputs ==
    {Blob(TRUE, recs) : recs \in SeqsUpTo([Key : Keys, Name : Names], MaxListLen)}
        \cup {Malformed}

InitList ==
    /\ remote \in ListInputs
    /\ real \in {NoDir, CacheOf(remote)}
    /\ preReal = real
    /\ InitLocals

NextList ==
    \/ ListLocal
    \/ ListRemote

SpecList == InitList /\ [][NextList]_vars

\* Bootstrap with a user who runs `license list` at any moment
NextObserved ==
    \/ Next
    \/ ListLocal

SpecObserved == Init /\ [][NextObserved]_vars

(* ------------------------------- claims -------------------------------- *)

\* writeLicense of task i has returned
Finished(i) == tasks[i].pc \in {"send", "done", "exited"}

\* task i has sent its outcome to ch
Posted(i) == tasks[i].pc \in {"done", "exited"}

FailedTask(i) == Finished(i) /\ tasks[i].err.kind # "nil"

SucceededTask(i) == Finished(i) /\ tasks[i].err.kind = "nil"

Committing == pc \in {"removeAll", "copyTree", "copying"}

FilesIn(d, dir) == {p \in DOMAIN d.files : p[1] = dir}

\* C1: once a materialization task has failed, the real directory stays as it
\* was when Bootstrap was called, no commit step runs, and when Bootstrap has
\* returned it has returned an error and the staging root is gone.
C1_TaskFailureAborts ==
    (\E i \in TaskIds : FailedTask(i)) =>
        /\ real = preReal
        /\ ~Committing
        /\ pc = "returned" => (result.kind # "nil" /\ ~staging.exists)

C1_Witness ==
    /\ pc = "returned"
    /\ result.kind # "nil"
    /\ preReal.exists
    /\ \E i, j \in TaskIds : FailedTask(i) /\ SucceededTask(j)

\* C2: whenever Bootstrap has returned, the real directory is exactly the
\* complete cache of before the call or exactly the complete cache of the
\* index fetched in the call.
C2_ReturnsOldOrNewCache ==
    pc = "returned" => (real = preReal \/ real = CacheOf(serialized))

\* C3: in every state of a refresh the real directory is the complete old
\* cache or the complete new cache: no observer sees the commit half-done.
C3_NeverHalfWritten ==
    pc \notin {"idle", "returned"} =>
        (real = preReal \/ real = CacheOf(serialized))

\* C4: after a successful Bootstrap of an index of N licenses with unique keys
\* the real directory holds exactly the N raw files, the N template files,
\* one pair per key of the index, and the index file with the bytes fetched.
C4_SuccessCommitsExactCache ==
    (pc = "returned" /\ result.kind = "nil" /\ UniqueKeys(licenses)) =>
        /\ real.exists
        /\ jsonToList(remote).list = licenses
        /\ Cardinality(FilesIn(real, RawDirectory)) = Len(licenses)
        /\ Cardinality(FilesIn(real, TemplatesDirectory)) = Len(licenses)
        /\ DOMAIN real.files =
              {<<DataDirectory, IndexFile>>}
                 \cup {<<RawDirectory, k>> : k \in KeysOf(licenses)}
                 \cup {<<TemplatesDirectory, k>> : k \in KeysOf(licenses)}
        /\ real.files[<<DataDirectory, IndexFile>>] = remote
        /\ \A k \in KeysOf(licenses) :
              /\ real.files[<<RawDirectory, k>>].wf
              /\ KeysOf(real.files[<<RawDirectory, k>>].recs) = {k}
              /\ real.files[<<TemplatesDirectory, k>>][2] = k

C4_Witness ==
    /\ pc = "returned"
    /\ result.kind = "nil"
    /\ Len(licenses) = 2
    /\ UniqueKeys(licenses)
    /\ preReal = CacheOf(Previous)
    /\ <<RawDirectory, "gpl-3.0">> \notin DOMAIN real.files

BeforeFanOut == {"tempDir", "mkdirAll", "fetchIndex", "writeIndex", "jsonToList"}

ErrorOfStep(at) ==
    CASE at = "tempDir"    -> "CreateTempDirFailed"
      [] at = "mkdirAll"   -> "CreateDirFailed"
      [] at = "fetchIndex" -> "FetchFailed"
      [] at = "writeIndex" -> "CreateDirFailed"
      [] at = "jsonToList" -> "DeserializeFailed"

\* C5: a return of Bootstrap from a step before the fan-out reports the error
\* of that step (FetchFailed for fetchIndex), with no task started, the real
\* directory untouched and no staging root left; an index that does not
\* decode always ends the call that way.
C5_EarlyFailureAborts ==
    [][/\ (pc \in BeforeFanOut /\ pc' = "returned") =>
            /\ result'.kind = ErrorOfStep(pc)
            /\ tasks' = <<>>
            /\ wg' = 0
            /\ real' = preReal
            /\ ~staging'.exists
       /\ (pc = "jsonToList" /\ ~serialized.wf) => pc' = "returned"]_vars

C5_Witness ==
    /\ pc = "returned"
    /\ result.kind = "FetchFailed"
    /\ tasks = <<>>
    /\ serialized = NoBytes
    /\ preReal.exists
    /\ real = preReal
    /\ ~staging.exists

\* C6: a Bootstrap that has returned has left no staging root, and the
\* staging root with the fetched data is there as long as the commit runs.
C6_StagingAlwaysRemoved ==
    /\ pc = "returned" => ~staging.exists
    /\ Committing =>
          /\ staging.exists
          /\ staging.files[<<DataDirectory, IndexFile>>] = serialized
    /\ pc \in (BeforeFanOut \ {"tempDir"}) \cup {"fanOut", "wait", "range"} =>
          staging.exists

C6_Witness ==
    /\ pc = "returned"
    /\ result.kind = "CopyTreeFailed"
    /\ DOMAIN real.files # {}
    /\ real # preReal
    /\ ~staging.exists

\* C7: with the remote source unchanged, a successful Bootstrap leaves the
\* same cache as the successful Bootstrap before it.
C7_Idempotent ==
    [][committed # <<>> => committed' = committed]_vars

\* a successful call that started from the cache a successful call left
C7_Witness ==
    /\ pc = "returned"
    /\ result.kind = "nil"
    /\ committed = <<real>>
    /\ preReal = real
    /\ Len(licenses) = 2
    /\ UniqueKeys(licenses)

OutcomesOf(i) == {j \in DOMAIN ch : ch[j].task = i}

\* C8: while Bootstrap waits, there is one task per license on its own copy
\* of it, each task has sent one outcome once it is past its send and none
\* before, ch never holds more than N outcomes, no task finds ch full, and
\* at the join ch holds N outcomes, one per task (per key when keys are unique).
C8_OneOutcomePerTask ==
    pc = "wait" =>
        /\ Len(tasks) = Len(licenses)
        /\ \A i \in TaskIds : tasks[i].l = licenses[i]
        /\ Len(ch) <= Len(licenses)
        /\ \A i \in TaskIds :
              Cardinality(OutcomesOf(i)) = IF Posted(i) THEN 1 ELSE 0
        /\ \A i \in TaskIds : tasks[i].pc = "send" => Len(ch) < ChanCap
        /\ wg = Cardinality({i \in TaskIds : tasks[i].pc # "exited"})
        /\ wg = 0 =>
              /\ Len(ch) = Len(licenses)
              /\ {ch[j].task : j \in DOMAIN ch} = 1..Len(licenses)
              /\ UniqueKeys(licenses) =>
                    \A k \in KeysOf(licenses) :
                       Cardinality({j \in DOMAIN ch :
                                      tasks[ch[j].task].l.Key = k}) = 1

C8_Witness ==
    /\ pc = "wait"
    /\ wg = 0
    /\ Len(ch) = 2
    /\ UniqueKeys(licenses)
    /\ ch[1].task = 2

\* C9: the error Bootstrap returns from the loop over ch is the error of a
\* task that failed; the loop returns no error when every task succeeded and
\* goes on to the commit only when no task failed.
C9_ReturnsATaskFailure ==
    [][/\ (pc = "range" /\ pc' = "returned") =>
            \E i \in TaskIds : FailedTask(i) /\ result' = tasks[i].err
       /\ (pc = "range" /\ \A i \in TaskIds : ~FailedTask(i)) =>
            pc' # "returned"
       /\ (pc = "range" /\ pc' = "removeAll") =>
            \A i \in TaskIds : SucceededTask(i)]_vars

C9_Witness ==
    /\ pc = "returned"
    /\ Len(tasks) = 2
    /\ FailedTask(1)
    /\ FailedTask(2)
    /\ tasks[1].err.kind = "FetchFailed"
    /\ tasks[2].err.kind = "WriteFileFailed"
    /\ result = tasks[2].err

\* what the list command read
ListInput ==
    IF out.op = "ListLocal" THEN real.files[<<DataDirectory, IndexFile>>].recs
                            ELSE remote.recs

\* the printed lines between the header and the closing blank line
Items == SubSeq(out.printed, 2, Len(out.printed) - 1)

Count(seq, x) == Cardinality({i \in DOMAIN seq : seq[i] = x})

\* the byte-wise order of the keys: "apache-2.0" < "gpl-3.0" < "mit"
KeyRank(k) ==
    CASE k = "apache-2.0" -> 1
      [] k = "gpl-3.0"    -> 2
      [] k = "mit"        -> 3

\* C10: a list command that succeeds prints the summaries it read in
\* ascending byte-wise order of the keys, each as often as it was read; the
\* keys mit, apache-2.0, gpl-3.0 come out as apache-2.0, gpl-3.0, mit.
C10_ListSortedByKey ==
    (out.op # "none" /\ out.err.kind = "nil") =>
        /\ Len(Items) = Len(ListInput)
        /\ \A i, j \in DOMAIN Items :
              i < j => KeyRank(Items[i][1]) <= KeyRank(Items[j][1])
        /\ \A i \in DOMAIN ListInput :
              Count(Items, <<ListInput[i].Key, ListInput[i].Name>>)
                 = Count(ListInput, ListInput[i])
        /\ (Len(ListInput) = 3 /\ KeysOf(ListInput) = Keys) =>
              [i \in 1..3 |-> Items[i][1]] = <<"apache-2.0", "gpl-3.0", "mit">>

C10_Witness ==
    /\ out.op = "ListLocal"
    /\ out.err.kind = "nil"
    /\ [i \in 1..Len(ListInput) |-> ListInput[i].Key]
          = <<"mit", "apache-2.0", "gpl-3.0">>
    /\ [i \in 1..Len(Items) |-> Items[i][1]]
          = <<"apache-2.0", "gpl-3.0", "mit">>

\* the index file of the real directory is there and decodes
LocalIndexGood ==
    /\ real.exists
    /\ indexFilePath \in DOMAIN real.files
    /\ ~jsonToList(real.files[indexFilePath]).err

\* C11: ListLocal returns ReadFailed, never another error, and does so
\* whenever the local index is missing or does not decode; ListRemote returns
\* FetchFailed, never another error, and does so whenever the remote index
\* does not decode; a list command that fails prints nothing, and no list
\* command changes the real directory.
C11_ListFailures ==
    /\ out.op = "ListLocal" =>
          /\ out.err.kind \in {"nil", "ReadFailed"}
          /\ ~LocalIndexGood => out.err = NewErrReadFailed
    /\ out.op = "ListRemote" =>
          /\ out.err.kind \in {"nil", "FetchFailed"}
          /\ jsonToList(remote).err => out.err = newErrFetchFailed
    /\ out.err.kind # "nil" => out.printed = NothingPrinted
    /\ real = preReal

C11_Witness ==
    /\ out.op = "ListRemote"
    /\ out.err = newErrFetchFailed
    /\ out.printed = NothingPrinted
    /\ jsonToList(remote).err
    /\ real.exists
    /\ ~LocalIndexGood

\* task i has run to its end: outcome sent, wg.Done called
Exited(i) == tasks[i].pc = "exited"

\* C12: while some task has not yet finished and posted its outcome the
\* orchestrator is still at the join: it has not read an outcome, not started
\* the commit, not returned, the staging root is still there and the real
\* directory is as it was when Bootstrap was called.
C12_JoinBeforeDecision ==
    /\ (\E i \in TaskIds : ~Exited(i)) =>
          /\ pc = "wait"
          /\ staging.exists
          /\ real = preReal
    /\ (pc \in {"range", "removeAll", "copyTree", "copying"}
          \/ (pc = "returned" /\ tasks # <<>>)) =>
          /\ \A i \in TaskIds : Exited(i)
          /\ wg = 0

C12_Witness ==
    /\ pc = "copying"
    /\ Len(tasks) = 2
    /\ \A i \in TaskIds : Exited(i)
    /\ real # preReal
    /\ staging.exists

\* the tasks whose outcome is in ch, not yet received
Queued == {ch[j].task : j \in DOMAIN ch}

\* C13 as stated: when Bootstrap has returned because a materialization
\* failed, no posted outcome is left unconsumed in ch.
C13_AbortDrainsAll ==
    (pc = "returned" /\ \E i \in TaskIds : FailedTask(i)) => ch = <<>>

\* C13: when one or more materializations fail, every task has finished and
\* posted its outcome before the orchestrator receives the first one; the
\* outcomes received before the failure it returns are all successes, and
\* the outcomes queued behind that failure stay in ch, never received.
C13_AbortAfterAllPosted ==
    /\ pc = "range" =>
          /\ \A i \in TaskIds : Exited(i)
          /\ \A i \in TaskIds \ Queued : SucceededTask(i)
    /\ (pc = "returned" /\ \E i \in TaskIds : FailedTask(i)) =>
          /\ \A i \in TaskIds : Exited(i)
          /\ \E f \in TaskIds \ Queued :
                /\ FailedTask(f)
                /\ result = tasks[f].err
                /\ \A i \in TaskIds \ (Queued \cup {f}) : SucceededTask(i)

C13_Witness ==
    /\ pc = "returned"
    /\ \E i \in TaskIds : FailedTask(i)
    /\ ch # <<>>
    /\ result.kind # "nil"

\* the last call the current Bootstrap made
LastCall == IF calls = <<>> THEN "none" ELSE calls[Len(calls)]

\* C14 as stated: the index is fetched before any staging area is created,
\* so when fetchIndex is called, and when its failure is detected, no staging
\* root has been created.
C14_IndexBeforeStaging ==
    /\ pc = "fetchIndex" => ~staging.exists
    /\ \A j \in DOMAIN calls :
          calls[j] = "TempDir" => \E k \in 1..(j - 1) : calls[k] = "fetchIndex"

\* C14: the staging root and its directories are created before the index is
\* fetched: fetchIndex is the third call, after ioutil.TempDir and the
\* os.MkdirAll loop; when it is called the staging root exists and is empty,
\* and when its failure is detected Bootstrap returns FetchFailed with the
\* staging root deleted and the real directory untouched.
C14_StagingBeforeIndex ==
    /\ \A j \in DOMAIN calls :
          calls[j] = "fetchIndex" =>
              (j = 3 /\ calls[1] = "TempDir" /\ calls[2] = "MkdirAll")
    /\ pc = "fetchIndex" => (staging = EmptyDir /\ serialized = NoBytes)
    /\ (pc = "returned" /\ LastCall = "fetchIndex") =>
          /\ result = newErrFetchFailed
          /\ ~staging.exists
          /\ real = preReal

C14_Witness ==
    /\ pc = "returned"
    /\ calls = <<"TempDir", "MkdirAll", "fetchIndex">>
    /\ result = newErrFetchFailed
    /\ ~staging.exists

\* task i has written its raw file: writeLicense went on to the template
WroteRaw(i) ==
    \/ tasks[i].pc = "writeTemplate"
    \/ Finished(i) /\ tasks[i].steps[Len(tasks[i].steps)] = "writeTemplate"

\* task i has written its template file
WroteTemplate(i) == SucceededTask(i)

\* the tasks that have written file p of the staging area
Writers(p) ==
    {i \in TaskIds :
        \/ WroteRaw(i) /\ p = <<RawDirectory, tasks[i].l.Key>>
        \/ WroteTemplate(i) /\ p = <<TemplatesDirectory, tasks[i].l.Key>>}

\* C15: task k works on its own copy of the k-th license of the index, the
\* files of the staging area other than the index file are exactly the files
\* rawDir/<key> and templatesDir/<key> the tasks have written for their
\* own license, and for an index with unique keys each of them was written
\* by one task only, under every interleaving.
C15_TasksWriteDisjointFiles ==
    tasks # <<>> =>
        /\ Len(tasks) = Len(licenses)
        /\ \A i \in TaskIds : tasks[i].l = licenses[i]
        /\ staging.exists =>
              LET unique == UniqueKeys(licenses)
              IN  /\ \A i \in TaskIds :
                        /\ WroteRaw(i) =>
                              <<RawDirectory, licenses[i].Key>> \in DOMAIN staging.files
                        /\ WroteTemplate(i) =>
                              <<TemplatesDirectory, licenses[i].Key>> \in DOMAIN staging.files
                  /\ \A p \in DOMAIN staging.files \ {indexFilePath} :
                        LET w == Writers(p)
                        IN  w # {} /\ (unique => Cardinality(w) = 1)

C15_Witness ==
    /\ pc = "wait"
    /\ Len(tasks) = 2
    /\ UniqueKeys(licenses)
    /\ WroteRaw(1) /\ WroteRaw(2) /\ WroteTemplate(2)
    /\ ~Finished(1)
    /\ Cardinality(DOMAIN staging.files) = 4

\* the steps of writeLicense in the order of the code
StepOrder == <<"fetch", "decode", "writeRaw", "writeTemplate">>

\* the step task i took last
LastStep(i) ==
    IF tasks[i].steps = <<>> THEN "none" ELSE tasks[i].steps[Len(tasks[i].steps)]

\* the error writeLicense returns when its step named step fails for task i
StepError(i, step) ==
    CASE step = "fetch"    -> newErrFetchFailed
      [] step = "decode"   -> newErrDeserializeFailed(tasks[i].content)
      [] step = "writeRaw" ->
            newErrWriteFileFailed(<<RawDirectory, tasks[i].l.Key>>)
      [] step = "writeTemplate" ->
            newErrWriteFileFailed(<<TemplatesDirectory, tasks[i].l.Key>>)

\* the raw file and the template of task i are in the staging area
HasRaw(i) == <<RawDirectory, tasks[i].l.Key>> \in DOMAIN staging.files

HasTemplate(i) == <<TemplatesDirectory, tasks[i].l.Key>> \in DOMAIN staging.files

\* C16: the steps a task has taken are a prefix of fetch, decode, write raw,
\* write template; a task that failed stopped at the step that failed and
\* holds that step's error: FetchFailed, DeserializeFailed with the fetched
\* bytes, WriteFileFailed with the raw path, WriteFileFailed with the
\* template path; a task that succeeded took all four steps. With unique
\* keys, a task that failed before the template step has no file in the
\* staging area, one that failed at the template step has its raw file only,
\* one that succeeded has both. What a task sends to ch is the error it holds.
C16_WriteLicenseSteps == [](
    /\ \A i \in TaskIds :
          /\ Len(tasks[i].steps) <= Len(StepOrder)
          /\ \A j \in DOMAIN tasks[i].steps : tasks[i].steps[j] = StepOrder[j]
          /\ IF Finished(i)
             THEN IF tasks[i].err.kind = "nil"
                  THEN tasks[i].steps = StepOrder
                  ELSE tasks[i].err = StepError(i, LastStep(i))
             ELSE tasks[i].err = Nil
          /\ (FailedTask(i) /\ LastStep(i) = "decode") =>
                (tasks[i].content # NoBytes /\ jsonToLicense(tasks[i].content).err)
          /\ Len(tasks[i].steps) >= 3 \/ tasks[i].pc = "writeRaw" =>
                ~jsonToLicense(tasks[i].content).err
    /\ (staging.exists /\ tasks # <<>> /\ UniqueKeys(licenses)) =>
          \A i \in TaskIds :
              /\ HasRaw(i) <=> WroteRaw(i)
              /\ HasTemplate(i) <=> SucceededTask(i)
              /\ HasRaw(i) =>
                    staging.files[<<RawDirectory, tasks[i].l.Key>>] = tasks[i].content
              /\ (FailedTask(i) /\ LastStep(i) # "writeTemplate") => ~HasRaw(i)
              /\ (FailedTask(i) /\ LastStep(i) = "writeTemplate") => HasRaw(i)
    /\ \A j \in DOMAIN ch : ch[j].err = tasks[ch[j].task].err)

C16_Witness ==
    /\ pc = "wait"
    /\ Len(tasks) = 2
    /\ UniqueKeys(licenses)
    /\ FailedTask(1) /\ LastStep(1) = "writeTemplate" /\ HasRaw(1) /\ ~HasTemplate(1)
    /\ FailedTask(2) /\ LastStep(2) = "decode" /\ ~HasRaw(2)
    /\ tasks[2].err.kind = "DeserializeFailed"
    /\ Queued = {1, 2}

\* every file of tree d is a file of tree e with the same content
SubTree(d, e) ==
    /\ DOMAIN d.files \subseteq DOMAIN e.files
    /\ \A p \in DOMAIN d.files : d.files[p] = e.files[p]

\* C17: os.RemoveAll is called only after all tasks succeeded, and
\* shutil.CopyTree only right after os.RemoveAll. A return straight from
\* os.RemoveAll is RemovePathFailed, happens only when an old cache was
\* there, and leaves no moved file in the real directory; when no old cache
\* was there the commit goes on to CopyTree. A return from CopyTree is nil
\* or CopyTreeFailed, and RemovePathFailed and CopyTreeFailed are returned
\* from nowhere else.
C17_CommitStep ==
    /\ \A j \in DOMAIN calls :
          /\ calls[j] = "RemoveAll" => \A i \in TaskIds : SucceededTask(i)
          /\ calls[j] = "CopyTree" => (j > 1 /\ calls[j - 1] = "RemoveAll")
    /\ pc = "removeAll" => LastCall = "RemoveAll"
    /\ pc \in {"copyTree", "copying"} => "RemoveAll" \in {calls[j] : j \in DOMAIN calls}
    /\ pc = "returned" =>
          /\ LastCall = "RemoveAll" =>
                /\ result = newErrRemovePathFailed
                /\ preReal.exists /\ real.exists
                /\ SubTree(real, preReal)
          /\ (LastCall \in {"RemoveAll", "CopyTree"} /\ ~preReal.exists) =>
                LastCall = "CopyTree"
          /\ LastCall = "CopyTree" => result.kind \in {"nil", "CopyTreeFailed"}
          /\ result.kind = "RemovePathFailed" => LastCall = "RemoveAll"
          /\ result.kind = "CopyTreeFailed" => LastCall = "CopyTree"
          /\ (result.kind = "nil" /\ calls # <<>>) =>
                (LastCall = "CopyTree" /\ real.exists)

C17_Witness ==
    /\ pc = "returned"
    /\ result = newErrRemovePathFailed
    /\ calls[Len(calls)] = "RemoveAll"
    /\ real.exists
    /\ real # preReal

\* the calls of fetchFullInfo made for key k in the current Bootstrap: one
\* pair of task and position in its steps for each
FetchesOfKey(k) ==
    UNION {{<<i, j>> : j \in {n \in DOMAIN tasks[i].steps :
                                 tasks[i].steps[n] = "fetch"}} :
           i \in {t \in TaskIds : tasks[t].l.Key = k}}

\* no call of the orchestrator and no step of a task is made twice, and a
\* Bootstrap that returned an error made no call after the one that failed
NoStepRepeated ==
    /\ \A j, k \in DOMAIN calls : calls[j] = calls[k] => j = k
    /\ \A i \in TaskIds :
          \A j, k \in DOMAIN tasks[i].steps :
              tasks[i].steps[j] = tasks[i].steps[k] => j = k
    /\ (pc = "returned" /\ result.kind # "nil" /\ calls # <<>>) =>
          CASE result.kind = "CreateTempDirFailed" -> LastCall = "TempDir"
            [] result.kind = "CreateDirFailed" -> LastCall \in {"MkdirAll", "WriteFile"}
            [] result.kind = "RemovePathFailed" -> LastCall = "RemoveAll"
            [] result.kind = "CopyTreeFailed" -> LastCall = "CopyTree"
            [] tasks = <<>> /\ result.kind = "FetchFailed" -> LastCall = "fetchIndex"
            [] OTHER -> LastCall = "jsonToList"

\* C18 as stated: no step is repeated and fetchFullInfo is called at most
\* once for each license key.
C18_OneFetchPerKey ==
    /\ NoStepRepeated
    /\ \A k \in Keys : Cardinality(FetchesOfKey(k)) <= 1

\* the entries of the index that name key k
EntriesOfKey(k) == {i \in DOMAIN licenses : licenses[i].Key = k}

\* C18: within one Bootstrap no call of the orchestrator (fetchIndex among
\* them) and no step of a task is made twice, a Bootstrap that returned an
\* error made no call after the one that failed, and fetchFullInfo is called
\* for a key at most as often as the index names it: once per entry of the
\* index, which is once per license key when the keys of the index are unique.
C18_NoRetries == [](
    /\ NoStepRepeated
    /\ tasks # <<>> =>
          \A k \in KeysOf(licenses) :
              Cardinality(FetchesOfKey(k)) <= Cardinality(EntriesOfKey(k)))

C18_Witness ==
    /\ pc = "returned"
    /\ result = newErrFetchFailed
    /\ Len(tasks) = 2
    /\ UniqueKeys(licenses)
    /\ \A k \in KeysOf(licenses) : Cardinality(FetchesOfKey(k)) = 1
    /\ Count(calls, "fetchIndex") = 1

\* C19: with every goroutine scheduled and every call returning, each task
\* launched runs to its end whatever the other tasks did, the join is passed
\* with all tasks at their end, and every Bootstrap that was called returns
\* (with an index of no license too); and as long as a task has not come back
\* from its fetch, Bootstrap stays at the join.
C19_EveryRunReturns ==
    /\ \A i \in 1..(MaxLicenses + 1) :
          (i \in TaskIds /\ tasks[i].pc = "fetch")
              ~> (i \in TaskIds /\ tasks[i].pc = "exited")
    /\ (pc = "fanOut") ~> (pc = "range" /\ \A i \in TaskIds : Exited(i))
    /\ (pc = "tempDir") ~> (pc = "returned")
    /\ [](\A i \in TaskIds : tasks[i].pc = "fetch" => pc = "wait")

C19_Witness ==
    /\ pc = "range"
    /\ Len(tasks) = 2
    /\ Len(ch) = 2
    /\ ch[1].task = 1 /\ FailedTask(1)
    /\ ch[2].task = 2 /\ SucceededTask(2)
    /\ \A i \in TaskIds : Exited(i)

\* what ListLocal returns and prints on the real directory d when its read
\* of the index file works
LocalListOf(d) ==
    IF /\ d.exists
       /\ indexFilePath \in DOMAIN d.files
       /\ ~jsonToList(d.files[indexFilePath]).err
    THEN Out("ListLocal", Nil, printList(jsonToList(d.files[indexFilePath]).list))
    ELSE Out("ListLocal", NewErrReadFailed, NothingPrinted)

\* C20: a ListLocal run after Bootstrap has returned, unless its own read
\* fails, lists exactly the licenses of the index fetched in that Bootstrap
\* when it returned success, and returns what it would have returned before
\* that Bootstrap (the same list, or ReadFailed) when it returned an error.
C20_ListLocalAgrees ==
    [][(pc = "returned" /\ out' # out) =>
          \/ out' = Out("ListLocal", NewErrReadFailed, NothingPrinted)
          \/ /\ result.kind = "nil"
             /\ out' = Out("ListLocal", Nil, printList(licenses))
          \/ /\ result.kind # "nil"
             /\ out' = LocalListOf(preReal)]_vars

====
